---- MODULE Spec2Model ----
(***************************************************************************)
(* OnlineAggloGFMM (src/GFMM/onlineagglogfmm.py): online learning of       *)
(* hyperboxes followed by agglomerative merging, and classification.       *)
(*                                                                         *)
(* Coordinates are grid points 0..MaxCoord (MaxCoord stands for 1.0 of the *)
(* normalised range), so sizes, thresholds and membership degrees are      *)
(* integers in grid units.  The learners and the classifier are imported   *)
(* by the file (lines 49-54) and are modelled from their specification;    *)
(* the orchestration (fit, predict) is modelled from the source.           *)
(***************************************************************************)
EXTENDS Integers, Sequences, FiniteSets

\* ---------------------------------------------------------------- bounds
MaxCoord == 2
MaxSamples == 2
MaxTest == 2

\* ------------------------------------------------------------- constants
gamma == 1
UNLABELED == 0
\* norm_range = [0, 1]: the normalised range, in grid units
loLim == 0
hiLim == MaxCoord

\* the data set has one feature column
Dims == {1}
Coords == 0..MaxCoord
Points == [Dims -> Coords]
Labels == {1, 2}
Tetas == 1..MaxCoord

Min2(a, b) == IF a <= b THEN a ELSE b
Max2(a, b) == IF a >= b THEN a ELSE b

RECURSIVE SumSeq(_)
SumSeq(s) == IF s = <<>> THEN 0 ELSE Head(s) + SumSeq(Tail(s))

PMin(p, q) == [d \in Dims |-> Min2(p[d], q[d])]
PMax(p, q) == [d \in Dims |-> Max2(p[d], q[d])]

\* W[d] - V[d] <= teta in every dimension
FitsTeta(v, w, teta) == \A d \in Dims : w[d] - v[d] <= teta

\* ramp threshold function, clipped to [0, 1] (= 0..MaxCoord grid units)
Ramp(r) == Max2(0, Min2(MaxCoord, gamma * r))

MaxOf(S) == CHOOSE m \in S : \A k \in S : k <= m
MinOf(S) == CHOOSE m \in S : \A k \in S : m <= k

\* membership of the sample [xl, xu] in the box [v, w], oper = 'min'
Membership(xl, xu, v, w) ==
    MinOf({Min2(MaxCoord - Ramp(xu[d] - w[d]), MaxCoord - Ramp(v[d] - xl[d])) : d \in Dims})

EmptyStore == [V |-> <<>>, W |-> <<>>, classId |-> <<>>, cardin |-> <<>>]

EmptyAgglo ==
    [V |-> <<>>, W |-> <<>>, classId |-> <<>>, cardin |-> <<>>,
     clusters |-> <<>>, used |-> <<>>, merged |-> FALSE]

NoTest == [Xl_Test |-> <<>>, Xu_Test |-> <<>>, patClassIdTest |-> <<>>, newVer |-> TRUE]
None == [summis |-> -1]

VARIABLES pc, err, teta_onl, teta_agglo, typeOfAgglo, isNorm,
          nXl, nXu, nLab, V_pre, W_pre, classId_pre,
          V, W, classId, cardin, mins, maxs,
          num_hyperbox_after_online, num_hyperbox_after_agglo,
          onl, idx, agglo, test, result

vars == <<pc, err, teta_onl, teta_agglo, typeOfAgglo, isNorm,
          nXl, nXu, nLab, V_pre, W_pre, classId_pre,
          V, W, classId, cardin, mins, maxs,
          num_hyperbox_after_online, num_hyperbox_after_agglo,
          onl, idx, agglo, test, result>>

\* ------------------------------------------------------ online learner
\* boxes whose label is compatible with the sample's label c
Candidates(st, c) ==
    {j \in 1..Len(st.classId) : st.classId[j] = c \/ st.classId[j] = UNLABELED}

\* the candidate of maximum membership, the lowest box id winning a tie
BestBox(st, xl, xu, c) ==
    LET mem(j) == Membership(xl, xu, st.V[j], st.W[j])
    IN  CHOOSE j \in Candidates(st, c) :
            \A k \in Candidates(st, c) :
                mem(j) > mem(k) \/ (mem(j) = mem(k) /\ j <= k)

CanExpand(st, j, xl, xu, teta) ==
    FitsTeta(PMin(st.V[j], xl), PMax(st.W[j], xu), teta)

Expand_swapped(st, j, xl, xu) ==
    [st EXCEPT !.V[j] = PMax(@, xu), !.W[j] = PMin(@, xl), !.cardin[j] = @ + 1]

Expand(st, j, xl, xu) ==
    [st EXCEPT !.V[j] = PMin(@, xl), !.W[j] = PMax(@, xu), !.cardin[j] = @ + 1]

Create(st, xl, xu, c) ==
    [V |-> Append(st.V, xl), W |-> Append(st.W, xu),
     classId |-> Append(st.classId, c), cardin |-> Append(st.cardin, 1)]

\* one sample of the stream: expand the best candidate or create a box
OnlineLearn(st, xl, xu, c, teta) ==
    IF Candidates(st, c) = {}
    THEN Create(st, xl, xu, c)
    ELSE LET j == BestBox(st, xl, xu, c)
         IN  IF CanExpand(st, j, xl, xu, teta)
             THEN Expand(st, j, xl, xu)
             ELSE Create(st, xl, xu, c)

\* OnlineGFMM(..., V = self.V, W = self.W, classId = self.classId)
OnlineGFMM(v, w, c) ==
    [V |-> v, W |-> w, classId |-> c, cardin |-> [j \in 1..Len(c) |-> 1]]

\* ------------------------------------------------------- normalisation
\* per-dimension minimum and maximum of the raw training data, as
\* dataPreprocessing records them: a range of the grid's width, or of one unit
NormParams ==
    {<<[d \in Dims |-> 0], [d \in Dims |-> MaxCoord]>>,
     <<[d \in Dims |-> 1], [d \in Dims |-> 2]>>}

\* ------------------------------------------------------------------ fit
\* the constructor: self.V = V_pre, self.W = W_pre, self.classId = classId_pre
\* (empty, or one box: an unlabeled point box, or a labeled box as wide as the range)
PreStores ==
    {<<>>,
     <<[v |-> [d \in Dims |-> 0], w |-> [d \in Dims |-> 0], c |-> UNLABELED]>>,
     <<[v |-> [d \in Dims |-> 0], w |-> [d \in Dims |-> MaxCoord], c |-> 1]>>}

InitWith(shapes, norms) ==
    /\ pc = "start"
    /\ err = "none"
    /\ teta_onl \in Tetas
    /\ teta_agglo \in Tetas
    /\ typeOfAgglo \in {1, 2, 3}
    /\ isNorm \in norms
    /\ \E s \in shapes : nXl = s[1] /\ nXu = s[2] /\ nLab = s[3]
    /\ \E p \in PreStores :
        /\ V_pre = [j \in 1..Len(p) |-> p[j].v]
        /\ W_pre = [j \in 1..Len(p) |-> p[j].w]
        /\ classId_pre = [j \in 1..Len(p) |-> p[j].c]
    /\ V = V_pre
    /\ W = W_pre
    /\ classId = classId_pre
    /\ cardin = <<>>
    /\ mins = <<>>
    /\ maxs = <<>>
    /\ num_hyperbox_after_online = 0
    /\ num_hyperbox_after_agglo = 0
    /\ onl = EmptyStore
    /\ idx = 0
    /\ agglo = EmptyAgglo
    /\ test = NoTest
    /\ result = None

\* fit on well-shaped training data that is already within the range
Init == InitWith({<<n, n, n>> : n \in 0..MaxSamples}, {FALSE})

OnlineTeta_agglo == teta_agglo

\* line 88: the online learner's maximum hyperbox size is self.teta_onl
OnlineTeta == teta_onl

\* lines 83-88: normalise (recording mins, maxs), construct the online learner
FitStart ==
    /\ pc = "start"
    /\ IF isNorm
       THEN \E p \in NormParams : mins' = p[1] /\ maxs' = p[2]
       ELSE UNCHANGED <<mins, maxs>>
    /\ onl' = OnlineGFMM(V, W, classId)
    /\ idx' = 1
    /\ pc' = "online"
    /\ UNCHANGED <<err, teta_onl, teta_agglo, typeOfAgglo, isNorm, nXl, nXu, nLab,
                   V_pre, W_pre, classId_pre, V, W, classId, cardin,
                   num_hyperbox_after_online, num_hyperbox_after_agglo, agglo, test, result>>

\* line 90, one row of X_l: X_u[i] and patClassId[i] must exist
OnlineStep ==
    /\ pc = "online"
    /\ idx <= nXl
    /\ IF idx > nXu \/ idx > nLab
       THEN /\ pc' = "error"
            /\ err' = "IndexError"
            /\ UNCHANGED <<onl, idx>>
       ELSE /\ \E xl \in Points, xu \in Points, c \in Labels :
                /\ \A d \in Dims : xl[d] <= xu[d]
                /\ onl' = OnlineLearn(onl, xl, xu, c, OnlineTeta)
            /\ idx' = idx + 1
            /\ UNCHANGED <<pc, err>>
    /\ UNCHANGED <<teta_onl, teta_agglo, typeOfAgglo, isNorm, nXl, nXu, nLab,
                   V_pre, W_pre, classId_pre, V, W, classId, cardin, mins, maxs,
                   num_hyperbox_after_online, num_hyperbox_after_agglo, agglo, test, result>>

NumAfterOnline_stale(learned, previous) == Len(previous)

\* line 96: len(self.classId), read after line 94 has assigned the learner's labels
NumAfterOnline(learned, previous) == Len(learned)

\* lines 92-96: take the online learner's store, snapshot the box count
FitAfterOnline ==
    /\ pc = "online"
    /\ idx > nXl
    /\ V' = onl.V
    /\ W' = onl.W
    /\ classId' = onl.classId
    /\ num_hyperbox_after_online' = NumAfterOnline(classId', classId)
    /\ pc' = "select"
    /\ UNCHANGED <<err, teta_onl, teta_agglo, typeOfAgglo, isNorm, nXl, nXu, nLab,
                   V_pre, W_pre, classId_pre, cardin, mins, maxs,
                   num_hyperbox_after_agglo, onl, idx, agglo, test, result>>

\* ------------------------------------------------ agglomerative learner
\* fit(X_l, X_u, patClassId): every input row is a box of one sample
AggloInit(v, w, c) ==
    [V |-> v, W |-> w, classId |-> c,
     cardin |-> [j \in 1..Len(c) |-> 1],
     clusters |-> [j \in 1..Len(c) |-> {j}],
     used |-> [j \in 1..Len(c) |-> FALSE],
     merged |-> FALSE]

Compatible_any(ca, cb) == TRUE

\* same label, or either unlabeled
Compatible(ca, cb) == ca = cb \/ ca = UNLABELED \/ cb = UNLABELED

\* the non-unlabeled label among the two
MergedLabel(ca, cb) == IF ca = UNLABELED THEN cb ELSE ca

RemoveAt(s, b) == [j \in 1..(Len(s) - 1) |-> IF j < b THEN s[j] ELSE s[j + 1]]

\* the tentative merge of a and b is within teta in every dimension
CanMerge(st, a, b, teta) ==
    /\ Compatible(st.classId[a], st.classId[b])
    /\ FitsTeta(PMin(st.V[a], st.V[b]), PMax(st.W[a], st.W[b]), teta)

\* remove both boxes, insert the merged one (at a's place); accel marks it
\* consumed for the rest of the round
Merge(st, a, b, accel) ==
    [V        |-> RemoveAt([st.V EXCEPT ![a] = PMin(st.V[a], st.V[b])], b),
     W        |-> RemoveAt([st.W EXCEPT ![a] = PMax(st.W[a], st.W[b])], b),
     classId  |-> RemoveAt([st.classId EXCEPT ![a] =
                               MergedLabel(st.classId[a], st.classId[b])], b),
     cardin   |-> RemoveAt([st.cardin EXCEPT ![a] = st.cardin[a] + st.cardin[b]], b),
     clusters |-> RemoveAt([st.clusters EXCEPT ![a] =
                               st.clusters[a] \cup st.clusters[b]], b),
     used     |-> RemoveAt([st.used EXCEPT ![a] = accel], b),
     merged   |-> TRUE]

AggloTeta_default == MaxCoord

\* lines 100-104: the agglomerative learner's maximum hyperbox size is self.teta_agglo
AggloTeta == teta_agglo

\* lines 99-106: construct the selected learner and start it on the store;
\* BatchGFMMV2 is not among the imports of lines 49-54
FitSelectAgglo ==
    /\ pc = "select"
    /\ IF typeOfAgglo = 2
       THEN /\ pc' = "error"
            /\ err' = "NameError"
            /\ UNCHANGED agglo
       ELSE /\ agglo' = AggloInit(V, W, classId)
            /\ pc' = "agglo"
            /\ UNCHANGED err
    /\ UNCHANGED <<teta_onl, teta_agglo, typeOfAgglo, isNorm, nXl, nXu, nLab,
                   V_pre, W_pre, classId_pre, V, W, classId, cardin, mins, maxs,
                   num_hyperbox_after_online, num_hyperbox_after_agglo, onl, idx, test, result>>

\* one accepted merge: a pair whose similarity clears bthres (the similarity
\* measure is a parameter of the learner: any compatible pair may clear it)
AggloMerge ==
    /\ pc = "agglo"
    /\ \E a \in 1..Len(agglo.classId), b \in 1..Len(agglo.classId) :
        /\ a < b
        /\ ~agglo.used[a]
        /\ ~agglo.used[b]
        /\ CanMerge(agglo, a, b, AggloTeta)
        /\ agglo' = Merge(agglo, a, b, typeOfAgglo = 1)
    /\ UNCHANGED <<pc, err, teta_onl, teta_agglo, typeOfAgglo, isNorm, nXl, nXu, nLab,
                   V_pre, W_pre, classId_pre, V, W, classId, cardin, mins, maxs,
                   num_hyperbox_after_online, num_hyperbox_after_agglo, onl, idx, test, result>>

\* the end of a pass: another round after a round that merged, else stop
AggloEndRound ==
    /\ pc = "agglo"
    /\ IF agglo.merged /\ Len(agglo.classId) >= 2
       THEN /\ agglo' = [agglo EXCEPT !.merged = FALSE,
                                      !.used = [j \in 1..Len(agglo.classId) |-> FALSE]]
            /\ UNCHANGED pc
       ELSE /\ pc' = "trained"
            /\ UNCHANGED agglo
    /\ UNCHANGED <<err, teta_onl, teta_agglo, typeOfAgglo, isNorm, nXl, nXu, nLab,
                   V_pre, W_pre, classId_pre, V, W, classId, cardin, mins, maxs,
                   num_hyperbox_after_online, num_hyperbox_after_agglo, onl, idx, test, result>>

\* lines 108-118: take the agglomerative learner's store and cardinalities
FitAfterAgglo ==
    /\ pc = "trained"
    /\ V' = agglo.V
    /\ W' = agglo.W
    /\ classId' = agglo.classId
    /\ cardin' = agglo.cardin
    /\ num_hyperbox_after_agglo' = Len(agglo.classId)
    /\ pc' = "done"
    /\ UNCHANGED <<err, teta_onl, teta_agglo, typeOfAgglo, isNorm, nXl, nXu, nLab,
                   V_pre, W_pre, classId_pre, mins, maxs,
                   num_hyperbox_after_online, onl, idx, agglo, test, result>>

\* ------------------------------------------------------------ classifier
Boxes == 1..Len(classId)

\* the boxes of maximum membership for one sample
TopBoxes(xl, xu) ==
    LET mem == [j \in Boxes |-> Membership(xl, xu, V[j], W[j])]
        top == MaxOf({mem[j] : j \in Boxes})
    IN  {j \in Boxes : mem[j] = top}

\* predict: the class of the first box of maximum membership; the sample is
\* ambiguous when boxes of several classes share the maximum
ClassifyPlain(xl, xu) ==
    LET top == TopBoxes(xl, xu)
    IN  [cls |-> classId[MinOf(top)],
         amb |-> Cardinality({classId[j] : j \in top}) > 1]

\* predict_with_probability: a tie goes to the class whose best-matching box has
\* the larger cardinality; it stays ambiguous when the cardinalities are equal too
ClassifyCardin(xl, xu) ==
    LET top  == TopBoxes(xl, xu)
        big  == MaxOf({cardin[j] : j \in top})
        best == {j \in top : cardin[j] = big}
    IN  [cls |-> classId[MinOf(best)],
         amb |-> Cardinality({classId[j] : j \in best}) > 1]

\* the result of either classifier on the rows of xl/xu, scored against labels
Classification(useCardin, xl, xu, labels) ==
    LET n == Len(xl)
        r == [k \in 1..n |-> IF useCardin THEN ClassifyCardin(xl[k], xu[k])
                                           ELSE ClassifyPlain(xl[k], xu[k])]
    IN  [predicted_class |-> [k \in 1..n |-> r[k].cls],
         misclass |-> [k \in 1..n |-> r[k].cls # labels[k]],
         summis |-> Cardinality({k \in 1..n : r[k].cls # labels[k]}),
         sumamb |-> Cardinality({k \in 1..n : r[k].amb})]

\* -------------------------------------------------------------- predict
\* lines 145-146: the linear rescaling with the training minima and maxima
NormalizeTest(x) ==
    [d \in Dims |-> loLim + ((hiLim - loLim) * (x[d] - mins[d])) \div (maxs[d] - mins[d])]

InLimits(x) == \A d \in Dims : x[d] >= loLim /\ x[d] <= hiLim

\* lines 153-155: the rows whose lower and upper bounds are both inside the range
RECURSIVE IndKeep(_, _, _)
IndKeep(xl, xu, k) ==
    IF k > Len(xl) THEN <<>>
    ELSE (IF InLimits(xl[k]) /\ InLimits(xu[k]) THEN <<k>> ELSE <<>>)
         \o IndKeep(xl, xu, k + 1)

Rows(x, ind) == [k \in 1..Len(ind) |-> x[ind[k]]]

\* lines 143-160: normalise and drop the samples outside loLim-hiLim
TestRows(xl, xu) ==
    IF Len(mins) > 0
    THEN LET nl == [k \in 1..Len(xl) |-> NormalizeTest(xl[k])]
             nu == [k \in 1..Len(xu) |-> NormalizeTest(xu[k])]
         IN  IF \E k \in 1..Len(nl) : ~InLimits(nl[k]) \/ ~InLimits(nu[k])
             THEN LET indKeep == IndKeep(nl, nu, 1)
                  IN  [Xl |-> Rows(nl, indKeep), Xu |-> Rows(nu, indKeep)]
             ELSE [Xl |-> nl, Xu |-> nu]
    ELSE [Xl |-> xl, Xu |-> xu]

RunClassifier_swapped(newVer, xl, xu, labels) ==
    IF newVer THEN Classification(FALSE, xl, xu, labels)
              ELSE Classification(TRUE, xl, xu, labels)

\* lines 166-170: the classifier newVer selects, given patClassIdTest as passed in
RunClassifier(newVer, xl, xu, labels) ==
    IF newVer THEN Classification(TRUE, xl, xu, labels)
              ELSE Classification(FALSE, xl, xu, labels)

\* lines 120-174
PredictResult(t) ==
    LET x == TestRows(t.Xl_Test, t.Xu_Test)
    IN  IF Len(x.Xl) > 0
        THEN RunClassifier(t.newVer, x.Xl, x.Xu, t.patClassIdTest)
        ELSE None

\* raw test values reach one grid step outside the training range
RawCoords == (0 - 1)..(MaxCoord + 1)
RawPoints == [Dims -> RawCoords]
TestSamples ==
    {r \in [xl : RawPoints, xu : RawPoints, c : Labels] :
        \A d \in Dims : r.xl[d] <= r.xu[d] /\ r.xu[d] <= r.xl[d] + 1}

Predict ==
    /\ pc = "done"
    /\ \E n \in 1..MaxTest, nv \in BOOLEAN :
        \E b \in [1..n -> TestSamples] :
            /\ test' = [Xl_Test |-> [k \in 1..n |-> b[k].xl],
                        Xu_Test |-> [k \in 1..n |-> b[k].xu],
                        patClassIdTest |-> [k \in 1..n |-> b[k].c],
                        newVer |-> nv]
            /\ result' = PredictResult(test')
    /\ pc' = "predicted"
    /\ UNCHANGED <<err, teta_onl, teta_agglo, typeOfAgglo, isNorm, nXl, nXu, nLab,
                   V_pre, W_pre, classId_pre, V, W, classId, cardin, mins, maxs,
                   num_hyperbox_after_online, num_hyperbox_after_agglo, onl, idx, agglo>>

\* a trained model: two boxes at the ends of the range, normalised or not
TrainedStores ==
    {<<[v |-> [d \in Dims |-> 0], w |-> [d \in Dims |-> a], c |-> 1, n |-> n1],
       [v |-> [d \in Dims |-> MaxCoord], w |-> [d \in Dims |-> MaxCoord], c |-> c2, n |-> 2]>> :
        a \in 0..1, n1 \in {1, 3}, c2 \in Labels}

InitPredict ==
    /\ pc = "done"
    /\ err = "none"
    /\ teta_onl = MaxCoord
    /\ teta_agglo = MaxCoord
    /\ typeOfAgglo = 1
    /\ \E p \in NormParams \cup {<<<<>>, <<>>>>} :
        /\ mins = p[1]
        /\ maxs = p[2]
        /\ isNorm = (p[1] # <<>>)
    /\ nXl = 0 /\ nXu = 0 /\ nLab = 0
    /\ V_pre = <<>> /\ W_pre = <<>> /\ classId_pre = <<>>
    /\ \E st \in TrainedStores :
        /\ V = [j \in 1..Len(st) |-> st[j].v]
        /\ W = [j \in 1..Len(st) |-> st[j].w]
        /\ classId = [j \in 1..Len(st) |-> st[j].c]
        /\ cardin = [j \in 1..Len(st) |-> st[j].n]
    /\ num_hyperbox_after_online = Len(classId)
    /\ num_hyperbox_after_agglo = Len(classId)
    /\ onl = EmptyStore
    /\ idx = 0
    /\ agglo = EmptyAgglo
    /\ test = NoTest
    /\ result = None

NextPredict == Predict

SpecPredict == InitPredict /\ [][NextPredict]_vars

Next ==
    \/ FitStart
    \/ OnlineStep
    \/ FitAfterOnline
    \/ FitSelectAgglo
    \/ AggloMerge
    \/ AggloEndRound
    \/ FitAfterAgglo

Spec == Init /\ [][Next]_vars

\* fit called with any row counts of X_l, X_u and patClassId
InitShapes ==
    InitWith({<<a, b, c>> : a \in 0..MaxSamples, b \in 0..MaxSamples, c \in 0..MaxSamples},
             BOOLEAN)

SpecShapes == InitShapes /\ [][Next]_vars

\* ================================================================ claims
Sizes(v, w, teta) == \A j \in 1..Len(v) : FitsTeta(v[j], w[j], teta)

\* C1: the cardinalities of the store fit returns sum to the cardinalities the
\* online learner held at the end of the online phase.
C1_CardinalityConserved ==
    pc = "done" => SumSeq(cardin) = SumSeq(onl.cardin)

\* C2 as stated: when fit returns, every hyperbox is within teta_agglo in every
\* dimension, whatever teta_onl and teta_agglo are.
C2_AllWithinTetaAgglo ==
    pc = "done" => Sizes(V, W, teta_agglo)

\* C2 amended: when fit returns, every hyperbox made by a merge is within
\* teta_agglo in every dimension, and a hyperbox wider than teta_agglo is a
\* hyperbox of the online phase that no merge touched.
C2_MergedWithinTetaAgglo ==
    pc = "done" =>
        \A j \in 1..Len(V) :
            /\ cardin[j] > 1 => FitsTeta(V[j], W[j], teta_agglo)
            /\ ~FitsTeta(V[j], W[j], teta_agglo) =>
                   \E i \in 1..Len(onl.V) : onl.V[i] = V[j] /\ onl.W[i] = W[j]

C2_Witness ==
    /\ pc = "done"
    /\ teta_agglo < teta_onl
    /\ Len(V) >= 2
    /\ \E j \in 1..Len(V) : ~FitsTeta(V[j], W[j], teta_agglo)

\* C3 as stated: once the online learner has consumed all samples, every
\* hyperbox is within teta_onl in every dimension.
C3_AllWithinTetaOnl ==
    pc = "select" => Sizes(V, W, teta_onl)

\* C3 amended: once the online learner has consumed all samples, every hyperbox
\* that was expanded (holds more than one sample) is within teta_onl in every
\* dimension; a wider box is the unexpanded copy of one sample or pre-seeded box.
C3_ExpandedWithinTetaOnl ==
    pc = "select" =>
        \A j \in 1..Len(V) : onl.cardin[j] > 1 => FitsTeta(V[j], W[j], teta_onl)

C3_Witness ==
    /\ pc = "select"
    /\ \E j \in 1..Len(V) : onl.cardin[j] > 1 /\ W[j] # V[j]
    /\ \E j \in 1..Len(V) : ~FitsTeta(V[j], W[j], teta_onl)

\* the test rows predict scores, and the original indices of the rows it keeps
Scored == TestRows(test.Xl_Test, test.Xu_Test)
Kept ==
    IF Len(mins) > 0
    THEN IndKeep([k \in 1..Len(test.Xl_Test) |-> NormalizeTest(test.Xl_Test[k])],
                 [k \in 1..Len(test.Xu_Test) |-> NormalizeTest(test.Xu_Test[k])], 1)
    ELSE [k \in 1..Len(test.Xl_Test) |-> k]

\* C4: when a test sample falls outside [loLim, hiLim], exactly the samples inside
\* the range are scored, each against its own label, and the misclassification
\* count counts only kept samples.
C4_KeptScoredOnOwnLabel ==
    (pc = "predicted" /\ result # None) =>
        /\ Len(result.predicted_class) = Len(Kept)
        /\ \A k \in 1..Len(Kept) :
               result.misclass[k] =
                   (result.predicted_class[k] # test.patClassIdTest[Kept[k]])
        /\ result.summis =
               Cardinality({k \in 1..Len(Kept) :
                   result.predicted_class[k] # test.patClassIdTest[Kept[k]]})

\* C5: for every typeOfAgglo in {1, 2, 3}, fit on well-shaped input never ends in
\* an error state.
C5_NoVariantFails ==
    pc # "error"

ShapeMismatch == nXl # nXu \/ nLab # nXl

\* C6: fit called with mismatched row counts does not complete, and ends in an
\* error with the store and the normalisation parameters as before the call.
C6_FailsFastUnchanged ==
    ShapeMismatch =>
        /\ pc # "done"
        /\ pc = "error" =>
               /\ V = V_pre /\ W = W_pre /\ classId = classId_pre
               /\ mins = <<>> /\ maxs = <<>>

\* C7: after fit, num_hyperbox_after_agglo <= num_hyperbox_after_online, and every
\* accepted merge reduces the number of hyperboxes by exactly one.
C7_MonotonicCompression ==
    /\ [](pc = "done" =>
            /\ num_hyperbox_after_agglo = Len(classId)
            /\ num_hyperbox_after_agglo <= num_hyperbox_after_online)
    /\ []((pc \in {"agglo", "trained"}) =>
            Len(agglo.classId) <= num_hyperbox_after_online)
    /\ [][(pc = "agglo" /\ agglo'.V # agglo.V) =>
            Len(agglo'.classId) = Len(agglo.classId) - 1]_vars

C7_Witness ==
    /\ pc = "done"
    /\ num_hyperbox_after_agglo < num_hyperbox_after_online
    /\ Len(V_pre) < num_hyperbox_after_agglo

\* the boxes of maximum membership for a scored row, from the store itself
TopFor(xl, xu) ==
    LET m == [j \in Boxes |-> Membership(xl, xu, V[j], W[j])]
    IN  {j \in Boxes : \A i \in Boxes : m[i] <= m[j]}
Tied(top) == \E i \in top, j \in top : classId[i] # classId[j]
\* box j's cardinality is larger than that of every top box of another class
Larger(top, j) == \A i \in top : classId[i] # classId[j] => cardin[i] < cardin[j]

\* C8: for a sample whose top class scores are equal, predict with the cardinality
\* rule returns the class whose best-matching hyperbox has the larger cardinality;
\* without the rule the sample is counted in sumamb and still gets a label of one
\* of the tied classes.
C8_TieResolution ==
    (pc = "predicted" /\ result # None) =>
        LET s == Scored
            top == [k \in 1..Len(s.Xl) |-> TopFor(s.Xl[k], s.Xu[k])]
        IN  IF test.newVer
            THEN \A k \in 1..Len(s.Xl) : \A j \in top[k] :
                     (Tied(top[k]) /\ Larger(top[k], j))
                         => result.predicted_class[k] = classId[j]
            ELSE /\ result.sumamb = Cardinality({k \in 1..Len(s.Xl) : Tied(top[k])})
                 /\ \A k \in 1..Len(s.Xl) :
                        result.predicted_class[k] \in {classId[j] : j \in top[k]}

C8_Witness ==
    /\ pc = "predicted"
    /\ result # None
    /\ test.newVer
    /\ \E k \in 1..Len(Scored.Xl) :
           LET top == TopFor(Scored.Xl[k], Scored.Xu[k])
           IN  /\ Tied(top)
               /\ \E j \in top : Larger(top, j) /\ \E i \in top : i < j

\* C9: a merge joins only boxes of equal labels or with an unlabeled one, and the
\* merged box carries the non-unlabeled label: every box of the agglomerative
\* learner covers only input boxes of its own label or unlabeled ones, and an
\* unlabeled box covers only unlabeled ones.
C9_ClassCompatibleMerges ==
    (pc \in {"agglo", "trained", "done"}) =>
        \A j \in 1..Len(agglo.classId) : \A m \in agglo.clusters[j] :
            \/ onl.classId[m] = agglo.classId[j]
            \/ (onl.classId[m] = UNLABELED /\ agglo.classId[j] # UNLABELED)

C9_Witness ==
    /\ pc = "done"
    /\ \E j \in 1..Len(agglo.classId) :
           /\ agglo.classId[j] # UNLABELED
           /\ \E m \in agglo.clusters[j], n \in agglo.clusters[j] :
                  onl.classId[m] = UNLABELED /\ onl.classId[n] = agglo.classId[j]
    /\ \E i \in 1..Len(classId), j \in 1..Len(classId) : i # j

WellFormed(v, w) == \A j \in 1..Len(v) : \A d \in Dims : v[j][d] <= w[j][d]

\* C10: after any step of the online or the agglomerative learner, every hyperbox
\* has V[d] <= W[d] in every dimension.
C10_WellFormedBoxes ==
    /\ WellFormed(onl.V, onl.W)
    /\ WellFormed(agglo.V, agglo.W)
    /\ WellFormed(V, W)

C10_Witness ==
    /\ pc = "done"
    /\ \E j \in 1..Len(onl.V) : onl.cardin[j] > 1 /\ onl.V[j] # onl.W[j]
    /\ \E j \in 1..Len(V) : cardin[j] > 1 /\ V[j] # W[j]
====
